---- MODULE Spec2Model ----
(***************************************************************************)
(* Olympic medals dashboard (src/app.py): the module-level load and data   *)
(* preparation, the dropdown option lists, and the four Dash callbacks     *)
(* update_pie_chart, update_map_chart, update_area_chart and               *)
(* update_bar_chart, with the pandas operations they use (boolean filter,  *)
(* replace, groupby/sum, nlargest, drop_duplicates, sort_values) written   *)
(* out on sequences of rows.                                               *)
(***************************************************************************)
EXTENDS Integers, Sequences, FiniteSets, TLC

(* ------------------------------------------------------------------ *)
(* Program constants                                                   *)
(* ------------------------------------------------------------------ *)

\* df_full['Year'] >= 1992
YearLo == 1992

\* df_full['Year'] <= 2020
YearHi == 2020

\* nlargest(10) in update_area_chart and update_bar_chart
TopN == 10

expected_cols_from_user ==
    <<"Year", "Host_country", "Host_city", "Country_Name", "Country_Code",
      "Gold", "Silver", "Bronze">>

(* ------------------------------------------------------------------ *)
(* Bounds of the model                                                 *)
(* ------------------------------------------------------------------ *)

\* number of countries in the generated part of the CSV (more than TopN)
NBase == 11

\* number of further rows of the CSV, drawn freely from ExtraRows
MaxExtra == 2

(* ------------------------------------------------------------------ *)
(* Python values that reach the callbacks: str, int, None              *)
(* ------------------------------------------------------------------ *)

PyStr(s) == [t |-> "str", s |-> s]

PyInt(i) == [t |-> "int", i |-> i]

PyNone == [t |-> "none"]

\* Python's truth value of a str / int / None
Truthy(v) ==
    CASE v.t = "none" -> FALSE
      [] v.t = "str" -> v.s # ""
      [] v.t = "int" -> v.i # 0

\* a == b between Python values of these three types
PyEq(a, b) ==
    /\ a.t = b.t
    /\ CASE a.t = "none" -> TRUE
         [] a.t = "str" -> a.s = b.s
         [] a.t = "int" -> a.i = b.i

\* str(v)
PyToStr(v) ==
    CASE v.t = "none" -> "None"
      [] v.t = "str" -> v.s
      [] v.t = "int" -> ToString(v.i)

(* ------------------------------------------------------------------ *)
(* The CSV resource: the inputs of the program                         *)
(* ------------------------------------------------------------------ *)

\* The country names of the model in Python's str order, which sorted()
\* and groupby's sorted keys follow.
CountryNames ==
    <<"Australia", "Brazil", "China", "Cuba", "France", "Germany", "Italy",
      "Japan", "Kenya", "Netherlands", "Russia", "Spain",
      "United States", "United States of America">>

CountryCodes ==
    <<"AUS", "BRA", "CHN", "CUB", "FRA", "GER", "ITA",
      "JPN", "KEN", "NED", "RUS", "ESP", "USA", "USA">>

NameRank(n) == CHOOSE i \in 1..Len(CountryNames) : CountryNames[i] = n

Row(y, city, host, name, g, s, b) ==
    [Year |-> y, Host_city |-> city, Host_country |-> host,
     Country_Name |-> name, Country_Code |-> CountryCodes[NameRank(name)],
     Gold |-> g, Silver |-> s, Bronze |-> b]

\* Row i of the generated table with the given seed: one row per country,
\* all of one Games (seed even) or alternating between two Games (seed odd),
\* with medal counts that repeat, so that sums tie.
BaseRow(i, seed) ==
    IF (i * seed) % 2 = 0
    THEN Row(YearHi, "Tokyo", "Japan", CountryNames[i],
             (i * (seed + 2)) % 4, (i + seed) % 3, (2 * i + seed) % 2)
    ELSE Row(YearLo, "Barcelona", "Spain", CountryNames[i],
             (i * (seed + 2)) % 4, (i + seed) % 3, (2 * i + seed) % 2)

BaseRows(seed) == [i \in 1..NBase |-> BaseRow(i, seed)]

\* the generated tables: one Games, two Games
Seeds == {0, 1}

\* Further rows: the country name the loader rewrites, in a year just below
\* the range and in the last year of the range; a country of the generated
\* table in a year just above the range and in the last year of the range,
\* there with the host spelled two ways.
ExtraRows ==
    { Row(YearLo - 1, "Tokyo", "Japan", "United States", 2, 1, 0),
      Row(YearHi, "Tokyo", "Japan", "United States", 2, 1, 0),
      Row(YearHi + 1, "Tokyo", "Japan", "China", 2, 1, 0),
      Row(YearHi, "Tokyo", "Japan", "China", 2, 1, 0),
      Row(YearHi, "Tokio", "Nippon", "China", 2, 1, 0) }

RECURSIVE SeqsUpTo(_, _)
SeqsUpTo(S, n) ==
    IF n = 0 THEN {<< >>}
    ELSE LET shorter == SeqsUpTo(S, n - 1)
         IN shorter \cup {Append(s, x) : s \in {t \in shorter : Len(t) = n - 1}, x \in S}

Tables ==
    {BaseRows(seed) \o extra : seed \in Seeds, extra \in SeqsUpTo(ExtraRows, MaxExtra)}

ExpectedSet == {expected_cols_from_user[i] : i \in 1..Len(expected_cols_from_user)}

\* What pd.read_csv can meet: a table with all the columns, a table that
\* lacks some of them, or a resource that cannot be fetched or parsed.
Resources ==
    {[status |-> "ok", columns |-> ExpectedSet, rows |-> t] : t \in Tables}
    \cup {[status |-> "ok", columns |-> c, rows |-> << >>] : c \in (SUBSET ExpectedSet) \ {ExpectedSet}}
    \cup {[status |-> s, columns |-> {}, rows |-> << >>] :
            s \in {"not_found", "fetch_error", "parse_error"}}

(* ------------------------------------------------------------------ *)
(* State                                                               *)
(* ------------------------------------------------------------------ *)

VARIABLES
    csv,            \* the remote CSV resource
    pc,             \* position in the module-level code
    fetches,        \* number of pd.read_csv calls made
    stdout,         \* what print() wrote
    globals,        \* the module-level names bound so far
    df_full,        \* rows of the loaded frame
    df,             \* rows of the working frame
    all_countries,
    medal_types,
    year_options,
    callbacks,      \* the registered callbacks: [name, inputs]
    sel,            \* the dropdowns' current values
    pending,        \* callback invocations dispatched and not yet run
    event,          \* what the last dispatch answered, and how many calls it made
    call,           \* the last callback invocation run
    result          \* what it returned or raised

vars == <<csv, pc, fetches, stdout, globals, df_full, df, all_countries,
          medal_types, year_options, callbacks, sel, pending, event, call, result>>

data == <<df_full, df, all_countries, medal_types, year_options>>

ui == <<sel, pending, event>>

NoCall == [cb |-> "none"]

NoResult == [kind |-> "none"]

NoEvent == [source |-> "none", calls |-> 0, cbs |-> {}]

Init ==
    /\ csv \in Resources
    /\ pc = "read_csv"
    /\ fetches = 0
    /\ stdout = << >>
    /\ globals = {}
    /\ df_full = << >>
    /\ df = << >>
    /\ all_countries = << >>
    /\ medal_types = << >>
    /\ year_options = << >>
    /\ callbacks = {}
    /\ sel = [country |-> PyNone, medal |-> PyNone, year |-> PyNone]
    /\ pending = {}
    /\ event = NoEvent
    /\ call = NoCall
    /\ result = NoResult

(* ------------------------------------------------------------------ *)
(* Module-level code: load, check, prepare                             *)
(* ------------------------------------------------------------------ *)

\* try: df_full = pd.read_csv(url) / except ...: print(...); exit()
read_csv ==
    /\ pc = "read_csv"
    /\ fetches' = fetches + 1
    /\ \/ /\ csv.status = "ok"
          /\ df_full' = csv.rows
          /\ globals' = globals \cup {"df_full"}
          /\ pc' = "check_columns"
          /\ UNCHANGED stdout
       \/ /\ csv.status = "not_found"
          /\ stdout' = Append(stdout, [msg |-> "not found", cols |-> << >>])
          /\ pc' = "exited"
          /\ UNCHANGED <<df_full, globals>>
       \/ /\ csv.status \in {"fetch_error", "parse_error"}
          /\ stdout' = Append(stdout, [msg |-> "Error loading CSV", cols |-> << >>, e |-> csv.status])
          /\ pc' = "exited"
          /\ UNCHANGED <<df_full, globals>>
    /\ UNCHANGED <<csv, df, all_countries, medal_types, year_options, callbacks, ui, call, result>>

\* Mutant: the last expected column is left out of the check.
MissingColsButLast(columns) ==
    SelectSeq(SubSeq(expected_cols_from_user, 1, Len(expected_cols_from_user) - 1),
              LAMBDA col : col \notin columns)

\* missing_cols = [col for col in expected_cols_from_user if col not in df_full.columns]
MissingCols(columns) ==
    SelectSeq(expected_cols_from_user, LAMBDA col : col \notin columns)

\* if missing_cols: print(...); print(...); exit()
check_columns ==
    /\ pc = "check_columns"
    /\ LET missing_cols == MissingCols(csv.columns)
       IN \/ /\ missing_cols # << >>
             /\ stdout' = stdout \o
                    << [msg |-> "missing columns", cols |-> missing_cols],
                       [msg |-> "available columns", cols |-> << >>, have |-> csv.columns] >>
             /\ pc' = "exited"
             /\ globals' = globals \cup {"expected_cols_from_user", "missing_cols"}
          \/ /\ missing_cols = << >>
             /\ pc' = "replace"
             /\ globals' = globals \cup {"expected_cols_from_user", "missing_cols"}
             /\ UNCHANGED stdout
    /\ UNCHANGED <<csv, fetches, data, callbacks, ui, call, result>>

\* Series.replace('United States', 'United States of America'): whole values
Replace(rows, old, new) ==
    [i \in 1..Len(rows) |->
        IF rows[i].Country_Name = old THEN [rows[i] EXCEPT !.Country_Name = new]
        ELSE rows[i]]

\* df_full['Country_Name'] = df_full['Country_Name'].replace(...)
replace_country ==
    /\ pc = "replace"
    /\ df_full' = Replace(df_full, "United States", "United States of America")
    /\ pc' = "filter"
    /\ UNCHANGED <<csv, fetches, stdout, globals, df, all_countries, medal_types,
                   year_options, callbacks, ui, call, result>>

\* Mutant: the first year of the range is left out.
InYearsAfterFirst(rows) == SelectSeq(rows, LAMBDA r : r.Year > YearLo /\ r.Year <= YearHi)

\* df_full[(df_full['Year'] >= 1992) & (df_full['Year'] <= 2020)]
InYears(rows) == SelectSeq(rows, LAMBDA r : r.Year >= YearLo /\ r.Year <= YearHi)

\* df = df_full[...].copy()
filter_years ==
    /\ pc = "filter"
    /\ df' = InYears(df_full)
    /\ globals' = globals \cup {"df"}
    /\ pc' = "total"
    /\ UNCHANGED <<csv, fetches, stdout, df_full, all_countries, medal_types,
                   year_options, callbacks, ui, call, result>>

\* df['Gold'] + df['Silver'] + df['Bronze'] as a new column
WithTotal(rows) ==
    [i \in 1..Len(rows) |->
        ("Total_Medals" :> (rows[i].Gold + rows[i].Silver + rows[i].Bronze)) @@ rows[i]]

\* df['Total_Medals'] = ...
add_total ==
    /\ pc = "total"
    /\ df' = WithTotal(df)
    /\ pc' = "options"
    /\ UNCHANGED <<csv, fetches, stdout, globals, df_full, all_countries, medal_types,
                   year_options, callbacks, ui, call, result>>

(* ------------------------------------------------------------------ *)
(* pandas operations on sequences of rows                              *)
(* ------------------------------------------------------------------ *)

\* sorted(...) of a collection of country names
SortedNames(S) == SelectSeq(CountryNames, LAMBDA n : n \in S)

\* Series.unique() of the Country_Name column, as a set
UniqueCountries(rows) == {rows[i].Country_Name : i \in 1..Len(rows)}

\* Series.sum() of one column
RECURSIVE SumCol(_, _)
SumCol(rows, col) ==
    IF rows = << >> THEN 0 ELSE Head(rows)[col] + SumCol(Tail(rows), col)

\* ascending order of a set of integers (groupby sorts its keys)
RECURSIVE SortedInts(_)
SortedInts(S) ==
    IF S = {} THEN << >>
    ELSE LET m == CHOOSE x \in S : \A y \in S : x <= y
         IN <<m>> \o SortedInts(S \ {m})

\* df.groupby('Country_Name', as_index=False)[col].sum(): one row per
\* country, keys sorted
GroupByCountry(rows, col) ==
    LET keys == SortedNames(UniqueCountries(rows))
    IN [k \in 1..Len(keys) |->
          ("Country_Name" :> keys[k]) @@
          (col :> SumCol(SelectSeq(rows, LAMBDA r : r.Country_Name = keys[k]), col))]

\* df.groupby(['Country_Name', 'Year'], as_index=False)[col].sum(): one
\* row per (country, year) present, keys sorted
RECURSIVE Flatten(_)
Flatten(ss) == IF ss = << >> THEN << >> ELSE Head(ss) \o Flatten(Tail(ss))

GroupByCountryYear(rows, col) ==
    LET keys == SortedNames(UniqueCountries(rows))
        group(n) ==
            LET of == SelectSeq(rows, LAMBDA r : r.Country_Name = n)
                years == SortedInts({of[i].Year : i \in 1..Len(of)})
            IN [j \in 1..Len(years) |->
                  [Country_Name |-> n, Year |-> years[j]] @@
                  (col :> SumCol(SelectSeq(of, LAMBDA r : r.Year = years[j]), col))]
    IN Flatten([k \in 1..Len(keys) |-> group(keys[k])])

\* the rows in descending order of col, equal values in their order of
\* appearance (keep='first')
RECURSIVE SortDescending(_, _)
SortDescending(rows, col) ==
    IF rows = << >> THEN << >>
    ELSE LET i == CHOOSE i \in 1..Len(rows) :
                    /\ \A j \in 1..Len(rows) : rows[j][col] <= rows[i][col]
                    /\ \A j \in 1..(i - 1) : rows[j][col] < rows[i][col]
         IN <<rows[i]>> \o
            SortDescending(SubSeq(rows, 1, i - 1) \o SubSeq(rows, i + 1, Len(rows)), col)

\* nlargest(n, col)
NLargest(n, rows, col) ==
    LET sorted == SortDescending(rows, col)
    IN SubSeq(sorted, 1, IF Len(sorted) < n THEN Len(sorted) ELSE n)

\* df[['Year', 'Host_city', 'Host_country']].drop_duplicates(): the first
\* occurrence of each triple, in order
DropDuplicates(rows) ==
    LET t(i) == [Year |-> rows[i].Year, Host_city |-> rows[i].Host_city,
                 Host_country |-> rows[i].Host_country]
        first == {i \in 1..Len(rows) : \A j \in 1..(i - 1) : t(j) # t(i)}
        idx == SortedInts(first)
    IN [k \in 1..Len(idx) |-> t(idx[k])]

\* sort_values('Year'): ascending by Year; the default sort is not stable, so
\* rows of the same Year may come in any order
RECURSIVE SortValuesYear(_)
SortValuesYear(S) ==
    IF S = {} THEN {<< >>}
    ELSE LET lowest == {t \in S : \A u \in S : t.Year <= u.Year}
         IN UNION {{<<t>> \o rest : rest \in SortValuesYear(S \ {t})} : t \in lowest}

(* ------------------------------------------------------------------ *)
(* Module-level code: dropdown options, layout, callback registration  *)
(* ------------------------------------------------------------------ *)

\* f"{row['Year']} - {row['Host_city']}, {row['Host_country']}"
YearLabel(row) ==
    ToString(row.Year) \o " - " \o row.Host_city \o ", " \o row.Host_country

AllYearsOption == [label |-> "All Years (1992-2020)", value |-> PyStr("All")]

\* all_countries, medal_types, year_host_info, year_options
build_options ==
    /\ pc = "options"
    /\ all_countries' = SortedNames(UniqueCountries(df))
    /\ medal_types' = <<"Gold", "Silver", "Bronze", "Total_Medals">>
    /\ LET distinct == DropDuplicates(df)
       IN \E year_host_info \in SortValuesYear({distinct[i] : i \in 1..Len(distinct)}) :
            year_options' = <<AllYearsOption>> \o
                [k \in 1..Len(year_host_info) |->
                    [label |-> YearLabel(year_host_info[k]),
                     value |-> PyInt(year_host_info[k].Year)]]
    /\ globals' = globals \cup {"all_countries", "medal_types", "year_host_info", "year_options"}
    /\ pc' = "layout"
    /\ UNCHANGED <<csv, fetches, stdout, df_full, df, callbacks, ui, call, result>>

\* app = dash.Dash(...); app.layout = ...: the dropdowns with their first values
init_layout ==
    /\ pc = "layout"
    /\ sel' = [year |-> PyStr("All"),
               medal |-> PyStr("Total_Medals"),
               country |-> IF all_countries # << >> THEN PyStr(all_countries[1]) ELSE PyNone]
    /\ globals' = globals \cup {"app", "server", "layout"}
    /\ pc' = "callbacks"
    /\ UNCHANGED <<csv, fetches, stdout, data, callbacks, pending, event, call, result>>

\* Mutant: the area chart also listens to the year dropdown.
RegisteredAreaOnYear ==
    { [name |-> "update_pie_chart", output |-> "pie-chart",
       inputs |-> <<"country-dropdown">>],
      [name |-> "update_map_chart", output |-> "map-chart",
       inputs |-> <<"medal-type-dropdown">>],
      [name |-> "update_area_chart", output |-> "area-chart",
       inputs |-> <<"medal-type-dropdown", "year-dropdown">>],
      [name |-> "update_bar_chart", output |-> "bar-chart",
       inputs |-> <<"medal-type-dropdown", "year-dropdown">>] }

\* the four @app.callback(Output(...), [Input(...), ...]) decorators
Registered ==
    { [name |-> "update_pie_chart", output |-> "pie-chart",
       inputs |-> <<"country-dropdown">>],
      [name |-> "update_map_chart", output |-> "map-chart",
       inputs |-> <<"medal-type-dropdown">>],
      [name |-> "update_area_chart", output |-> "area-chart",
       inputs |-> <<"medal-type-dropdown">>],
      [name |-> "update_bar_chart", output |-> "bar-chart",
       inputs |-> <<"medal-type-dropdown", "year-dropdown">>] }

register_callbacks ==
    /\ pc = "callbacks"
    /\ callbacks' = Registered
    /\ globals' = globals \cup {cb.name : cb \in Registered}
    /\ pc' = "serving"
    /\ UNCHANGED <<csv, fetches, stdout, data, ui, call, result>>

\* if __name__ == '__main__': app.run_server(debug=True) is reached only
\* after all of the above: pc = "serving" from here on.

(* ------------------------------------------------------------------ *)
(* The callbacks                                                       *)
(* ------------------------------------------------------------------ *)

\* the columns of df
DfColumns == ExpectedSet \cup {"Total_Medals"}

\* selected_medal_type.replace("_", " ") for the names used as medal types
Spaced(name) == IF name = "Total_Medals" THEN "Total Medals" ELSE name

Raised(chart, error) == [kind |-> "raise", chart |-> chart, error |-> error]

Placeholder(chart, title, text) ==
    [kind |-> "placeholder", chart |-> chart, title |-> title,
     annotation |-> text, data |-> << >>]

\* color_discrete_map of the pie; marker colour of the bar
MedalColor(medal) ==
    CASE medal = "Gold" -> "gold"
      [] medal = "Silver" -> "silver"
      [] medal = "Bronze" -> "#cd7f32"
      [] OTHER -> "default"

\* Mutant: the rows of the table come in the order Silver, Gold, Bronze.
MedalCountsSilverFirst(country_data) ==
    << [Medal_Type |-> "Silver", Count |-> SumCol(country_data, "Silver"),
        color |-> MedalColor("Silver")],
       [Medal_Type |-> "Gold", Count |-> SumCol(country_data, "Gold"),
        color |-> MedalColor("Gold")],
       [Medal_Type |-> "Bronze", Count |-> SumCol(country_data, "Bronze"),
        color |-> MedalColor("Bronze")] >>

\* medal_sum = country_data[['Gold', 'Silver', 'Bronze']].sum(); medal_counts_df
MedalCounts(country_data) ==
    << [Medal_Type |-> "Gold", Count |-> SumCol(country_data, "Gold"),
        color |-> MedalColor("Gold")],
       [Medal_Type |-> "Silver", Count |-> SumCol(country_data, "Silver"),
        color |-> MedalColor("Silver")],
       [Medal_Type |-> "Bronze", Count |-> SumCol(country_data, "Bronze"),
        color |-> MedalColor("Bronze")] >>

\* country_data = df[df['Country_Name'] == selected_country]
CountryData(selected_country) ==
    SelectSeq(df, LAMBDA r : selected_country.t = "str"
                             /\ r.Country_Name = selected_country.s)

\* Mutant: no check that country_data is empty.
PieResultNoEmptyCheck(selected_country) ==
    IF ~Truthy(selected_country)
    THEN Placeholder("pie", "Please select a country", "No country selected")
    ELSE [kind |-> "figure", chart |-> "pie",
          title |-> "Medal Distribution for " \o PyToStr(selected_country)
                    \o " (1992-2020)",
          data |-> MedalCounts(CountryData(selected_country))]

\* body of update_pie_chart(selected_country)
PieResult(selected_country) ==
    IF ~Truthy(selected_country)
    THEN Placeholder("pie", "Please select a country", "No country selected")
    ELSE IF CountryData(selected_country) = << >>
    THEN Placeholder("pie",
             "No data for " \o PyToStr(selected_country) \o " (1992-2020)",
             "No data available")
    ELSE [kind |-> "figure", chart |-> "pie",
          title |-> "Medal Distribution for " \o PyToStr(selected_country)
                    \o " (1992-2020)",
          data |-> MedalCounts(CountryData(selected_country))]

\* df.groupby(...)[medal_col] raises KeyError unless medal_col is a column
IsColumn(medal_col) == medal_col.t = "str" /\ medal_col.s \in DfColumns

\* body of update_map_chart(selected_medal_type)
MapResult(selected_medal_type) ==
    IF ~IsColumn(selected_medal_type)
    THEN Raised("choropleth", "KeyError")
    ELSE [kind |-> "figure", chart |-> "choropleth",
          title |-> "Total " \o Spaced(selected_medal_type.s) \o " by Country (1992-2020)",
          data |-> GroupByCountry(df, selected_medal_type.s)]

\* Mutant: the ten largest (country, year) groups instead of the ten largest
\* countries.
AreaRowsTopGroups(medal_col) ==
    LET df_country_year_medals == GroupByCountryYear(df, medal_col)
        top == NLargest(TopN, df_country_year_medals, medal_col)
        top_10_countries_overall == {top[i].Country_Name : i \in 1..Len(top)}
    IN SelectSeq(df_country_year_medals,
                 LAMBDA r : r.Country_Name \in top_10_countries_overall)

\* df_country_year_medals[df_country_year_medals['Country_Name'].isin(top_10)]
AreaRows(medal_col) ==
    LET df_country_year_medals == GroupByCountryYear(df, medal_col)
        top == NLargest(TopN, GroupByCountry(df, medal_col), medal_col)
        top_10_countries_overall == {top[i].Country_Name : i \in 1..Len(top)}
    IN SelectSeq(df_country_year_medals,
                 LAMBDA r : r.Country_Name \in top_10_countries_overall)

\* body of update_area_chart(selected_medal_type)
AreaResult(selected_medal_type) ==
    IF ~IsColumn(selected_medal_type)
    THEN Raised("area", "KeyError")
    ELSE [kind |-> "figure", chart |-> "area",
          title |-> "Top 10 Countries by " \o Spaced(selected_medal_type.s) \o " (1992-2020)",
          data |-> AreaRows(selected_medal_type.s)]

\* Mutant: the selected year is not applied.
BarFrameAllYears(selected_year_value) == df

\* current_df_bar: df.copy(), narrowed to the selected year unless it is 'All'
BarFrame(selected_year_value) ==
    IF PyEq(selected_year_value, PyStr("All")) THEN df
    ELSE SelectSeq(df, LAMBDA r : selected_year_value.t = "int"
                                  /\ r.Year = selected_year_value.i)

\* year_title_segment
YearTitleSegment(selected_year_value) ==
    IF PyEq(selected_year_value, PyStr("All")) THEN "All Years (1992-2020)"
    ELSE LET hits == SelectSeq(year_options,
                               LAMBDA item : PyEq(item.value, selected_year_value))
         IN IF hits # << >> THEN Head(hits).label
            ELSE PyToStr(selected_year_value)

\* df_grouped_bar
BarRows(medal_col, selected_year_value) ==
    NLargest(TopN, GroupByCountry(BarFrame(selected_year_value), medal_col), medal_col)

\* body of update_bar_chart(selected_medal_type, selected_year_value)
BarResult(selected_medal_type, selected_year_value) ==
    IF ~IsColumn(selected_medal_type)
    THEN Raised("bar", "KeyError")
    ELSE [kind |-> "figure", chart |-> "bar",
          year_title_segment |-> YearTitleSegment(selected_year_value),
          title |-> "Top 10 Countries by " \o Spaced(selected_medal_type.s) \o " in "
                    \o YearTitleSegment(selected_year_value),
          color |-> MedalColor(selected_medal_type.s),
          data |-> BarRows(selected_medal_type.s, selected_year_value)]

\* What a call leaves alone: everything but the record of the call.
update_pie_chart(selected_country) ==
    /\ call' = [cb |-> "update_pie_chart", args |-> <<selected_country>>]
    /\ result' = PieResult(selected_country)
    /\ UNCHANGED <<csv, fetches, stdout, globals, data, callbacks>>

update_map_chart(selected_medal_type) ==
    /\ call' = [cb |-> "update_map_chart", args |-> <<selected_medal_type>>]
    /\ result' = MapResult(selected_medal_type)
    /\ UNCHANGED <<csv, fetches, stdout, globals, data, callbacks>>

update_area_chart(selected_medal_type) ==
    /\ call' = [cb |-> "update_area_chart", args |-> <<selected_medal_type>>]
    /\ result' = AreaResult(selected_medal_type)
    /\ UNCHANGED <<csv, fetches, stdout, globals, data, callbacks>>

\* Mutant: the year filter is applied to df itself.
update_bar_chart_on_df(selected_medal_type, selected_year_value) ==
    /\ call' = [cb |-> "update_bar_chart",
                args |-> <<selected_medal_type, selected_year_value>>]
    /\ result' = BarResult(selected_medal_type, selected_year_value)
    /\ df' = IF PyEq(selected_year_value, PyStr("All")) THEN df
             ELSE SelectSeq(df, LAMBDA r : selected_year_value.t = "int"
                                           /\ r.Year = selected_year_value.i)
    /\ UNCHANGED <<csv, fetches, stdout, globals, df_full, all_countries, medal_types,
                   year_options, callbacks>>

update_bar_chart(selected_medal_type, selected_year_value) ==
    /\ call' = [cb |-> "update_bar_chart",
                args |-> <<selected_medal_type, selected_year_value>>]
    /\ result' = BarResult(selected_medal_type, selected_year_value)
    /\ UNCHANGED <<csv, fetches, stdout, globals, data, callbacks>>

(* ------------------------------------------------------------------ *)
(* Calls with any arguments (specification Spec)                       *)
(* ------------------------------------------------------------------ *)

CountryArgs ==
    {PyNone, PyStr("Atlantis"), PyStr("China"),
     PyStr("United States"), PyStr("United States of America")}

MedalArgs == {PyStr("Gold"), PyStr("Silver"), PyStr("Bronze"), PyStr("Total_Medals"), PyNone}

YearArgs == {PyStr("All"), PyInt(YearHi), PyInt(YearHi + 1), PyNone}

CallPie ==
    /\ pc = "serving"
    /\ \E c \in CountryArgs : update_pie_chart(c)
    /\ UNCHANGED <<pc, ui>>

CallMap ==
    /\ pc = "serving"
    /\ \E m \in MedalArgs : update_map_chart(m)
    /\ UNCHANGED <<pc, ui>>

CallArea ==
    /\ pc = "serving"
    /\ \E m \in MedalArgs : update_area_chart(m)
    /\ UNCHANGED <<pc, ui>>

CallBar ==
    /\ pc = "serving"
    /\ \E m \in MedalArgs, y \in YearArgs : update_bar_chart(m, y)
    /\ UNCHANGED <<pc, ui>>

(* ------------------------------------------------------------------ *)
(* Calls dispatched by the dropdowns (specification SpecUI)            *)
(* ------------------------------------------------------------------ *)

\* the dropdown behind each component id
Selector(id) ==
    CASE id = "country-dropdown" -> "country"
      [] id = "medal-type-dropdown" -> "medal"
      [] id = "year-dropdown" -> "year"

Dropdowns == {"country-dropdown", "medal-type-dropdown", "year-dropdown"}

\* What a dropdown can hold: one of its options, or nothing once cleared.
Selectable(id) ==
    CASE id = "country-dropdown" ->
            {PyStr(all_countries[i]) : i \in 1..Len(all_countries)} \cup {PyNone}
      [] id = "medal-type-dropdown" ->
            {PyStr(medal_types[i]) : i \in 1..Len(medal_types)} \cup {PyNone}
      [] id = "year-dropdown" ->
            {year_options[i].value : i \in 1..Len(year_options)} \cup {PyNone}

\* One invocation of every registered callback that has the component among
\* its Inputs, each with the current values of all of its Inputs.
Dispatch(ids, values) ==
    { [cb |-> cb.name,
       args |-> [k \in 1..Len(cb.inputs) |-> values[Selector(cb.inputs[k])]]] :
      cb \in {c \in callbacks : \E k \in 1..Len(c.inputs) : c.inputs[k] \in ids} }

\* the first rendering of the page: every callback is called once
page_load ==
    /\ pc = "serving"
    /\ event = NoEvent
    /\ pending' = Dispatch(Dropdowns, sel)
    /\ event' = [source |-> "load", calls |-> Cardinality(pending'),
                 cbs |-> {inv.cb : inv \in pending'}]
    /\ UNCHANGED <<csv, pc, fetches, stdout, globals, data, callbacks, sel, call, result>>

\* the user changes one dropdown, once the page shows the previous update
change(id) ==
    /\ pc = "serving"
    /\ event # NoEvent
    /\ pending = {}
    /\ \E v \in Selectable(id) :
         /\ ~PyEq(v, sel[Selector(id)])
         /\ sel' = [sel EXCEPT ![Selector(id)] = v]
    /\ pending' = Dispatch({id}, sel')
    /\ event' = [source |-> id, calls |-> Cardinality(pending'),
                 cbs |-> {inv.cb : inv \in pending'}]
    /\ UNCHANGED <<csv, pc, fetches, stdout, globals, data, callbacks, call, result>>

change_country == change("country-dropdown")

change_medal == change("medal-type-dropdown")

change_year == change("year-dropdown")

\* the server runs one dispatched invocation
run_callback ==
    /\ pc = "serving"
    /\ \E inv \in pending :
         /\ pending' = pending \ {inv}
         /\ CASE inv.cb = "update_pie_chart" -> update_pie_chart(inv.args[1])
              [] inv.cb = "update_map_chart" -> update_map_chart(inv.args[1])
              [] inv.cb = "update_area_chart" -> update_area_chart(inv.args[1])
              [] inv.cb = "update_bar_chart" -> update_bar_chart(inv.args[1], inv.args[2])
    /\ UNCHANGED <<pc, sel, event>>

(* ------------------------------------------------------------------ *)
(* Specifications                                                      *)
(* ------------------------------------------------------------------ *)

Startup ==
    \/ read_csv \/ check_columns \/ replace_country \/ filter_years \/ add_total
    \/ build_options \/ init_layout \/ register_callbacks

Next == Startup \/ CallPie \/ CallMap \/ CallArea \/ CallBar

Spec == Init /\ [][Next]_vars

\* The dashboard in use, on the generated tables.
InitUI == Init /\ Len(csv.rows) <= NBase

NextUI == Startup \/ page_load \/ change_country \/ change_medal \/ change_year \/ run_callback

SpecUI == InitUI /\ [][NextUI]_vars

(* ------------------------------------------------------------------ *)
(* Properties                                                          *)
(* ------------------------------------------------------------------ *)

Idx(rows) == 1..Len(rows)

\* the sum of column col over the rows with index in I
RECURSIVE SumOver(_, _, _)
SumOver(I, rows, col) ==
    IF I = {} THEN 0
    ELSE LET i == CHOOSE i \in I : TRUE
         IN rows[i][col] + SumOver(I \ {i}, rows, col)

Least(a, b) == IF a < b THEN a ELSE b

Metrics == {"Gold", "Silver", "Bronze", "Total_Medals"}

Served == pc = "serving" /\ call.cb # "none"

\* the rows of df of one country
RowsOf(c) == {i \in Idx(df) : df[i].Country_Name = c}

\* a call of update_pie_chart for a country with at least one row in df
PieOfKnownCountry ==
    /\ Served
    /\ call.cb = "update_pie_chart"
    /\ call.args[1].t = "str"
    /\ RowsOf(call.args[1].s) # {}

\* C1: for a country with at least one row, update_pie_chart returns exactly
\* the three pairs Gold, Silver, Bronze in this order, each with the sum of
\* its column over the country's rows, and their total is the sum of
\* Total_Medals over these rows.
C1_PieSums ==
    PieOfKnownCountry =>
        LET I == RowsOf(call.args[1].s)
            out == result.data
        IN /\ result.kind = "figure"
           /\ Len(out) = 3
           /\ <<out[1].Medal_Type, out[2].Medal_Type, out[3].Medal_Type>>
                = <<"Gold", "Silver", "Bronze">>
           /\ out[1].Count = SumOver(I, df, "Gold")
           /\ out[2].Count = SumOver(I, df, "Silver")
           /\ out[3].Count = SumOver(I, df, "Bronze")
           /\ out[1].Count + out[2].Count + out[3].Count = SumOver(I, df, "Total_Medals")

\* a pie of a country with several rows and three different sums
C1_Witness ==
    /\ PieOfKnownCountry
    /\ Cardinality(RowsOf(call.args[1].s)) >= 2
    /\ result.kind = "figure"
    /\ Cardinality({result.data[k].Count : k \in 1..3}) = 3

\* a call of update_bar_chart with one of the four metrics and 'All' or a year
BarOfMetric ==
    /\ Served
    /\ call.cb = "update_bar_chart"
    /\ call.args[1].t = "str"
    /\ call.args[1].s \in Metrics
    /\ \/ call.args[2] = PyStr("All")
       \/ call.args[2].t = "int"

\* the rows update_bar_chart is to look at
BarScope ==
    IF call.args[2].t = "int" THEN {i \in Idx(df) : df[i].Year = call.args[2].i}
    ELSE Idx(df)

\* C2: update_bar_chart restricts df to the selected year unless it is
\* 'All', sums the metric per country, and returns min(10, number of
\* countries in these rows) rows, one per country, in descending order of
\* the sum; no country left out has a strictly larger sum than one returned.
C2_BarTop10 ==
    BarOfMetric =>
        LET m == call.args[1].s
            R == BarScope
            Cs == {df[i].Country_Name : i \in R}
            total(c) == SumOver({i \in R : df[i].Country_Name = c}, df, m)
            out == result.data
            shown == {out[k].Country_Name : k \in Idx(out)}
        IN /\ result.kind = "figure"
           /\ Len(out) = Least(TopN, Cardinality(Cs))
           /\ Cardinality(shown) = Len(out)
           /\ shown \subseteq Cs
           /\ \A k \in Idx(out) : out[k][m] = total(out[k].Country_Name)
           /\ \A k \in Idx(out) : \A l \in Idx(out) : k < l => out[k][m] >= out[l][m]
           /\ \A c \in Cs \ shown : \A k \in Idx(out) : total(c) <= out[k][m]

\* a bar chart of one year with more than ten countries in that year, cut to
\* ten where the first country left out ties with the last one returned
C2_Witness ==
    /\ BarOfMetric
    /\ call.args[2].t = "int"
    /\ result.kind = "figure"
    /\ Len(result.data) = TopN
    /\ LET m == call.args[1].s
           R == BarScope
           Cs == {df[i].Country_Name : i \in R}
           shown == {result.data[k].Country_Name : k \in Idx(result.data)}
       IN /\ Cardinality(Cs) > TopN
          /\ \E c \in Cs \ shown :
                SumOver({i \in R : df[i].Country_Name = c}, df, m) = result.data[TopN][m]

\* a call of update_area_chart with one of the four metrics
AreaOfMetric ==
    /\ Served
    /\ call.cb = "update_area_chart"
    /\ call.args[1].t = "str"
    /\ call.args[1].s \in Metrics

\* C3: update_area_chart returns rows for exactly min(10, number of
\* countries) countries, none of which has a smaller all-years sum than a
\* country left out; for each of them exactly one row per year the country
\* has in df, with the sum of the metric in that year; and no other row.
C3_AreaTop10 ==
    AreaOfMetric =>
        LET m == call.args[1].s
            Cs == {df[i].Country_Name : i \in Idx(df)}
            total(c) == SumOver(RowsOf(c), df, m)
            out == result.data
            T == {out[k].Country_Name : k \in Idx(out)}
            groups == {<<df[i].Country_Name, df[i].Year>> : i \in Idx(df)}
        IN /\ result.kind = "figure"
           /\ Cardinality(T) = Least(TopN, Cardinality(Cs))
           /\ T \subseteq Cs
           /\ \A c \in T : \A d \in Cs \ T : total(d) <= total(c)
           /\ {<<out[k].Country_Name, out[k].Year>> : k \in Idx(out)}
                = {g \in groups : g[1] \in T}
           /\ Len(out) = Cardinality({g \in groups : g[1] \in T})
           /\ \A k \in Idx(out) :
                out[k][m] = SumOver({i \in RowsOf(out[k].Country_Name) :
                                        df[i].Year = out[k].Year}, df, m)

\* an area chart of a table with more than ten countries, where a country
\* returned has rows in two years and a country left out has rows
C3_Witness ==
    /\ AreaOfMetric
    /\ result.kind = "figure"
    /\ Cardinality({df[i].Country_Name : i \in Idx(df)}) > TopN
    /\ \E k \in Idx(result.data) : \E l \in Idx(result.data) :
          /\ result.data[k].Country_Name = result.data[l].Country_Name
          /\ result.data[k].Year # result.data[l].Year

\* C4: update_pie_chart with no country returns the 'no selection'
\* placeholder, with a name that has no row in df the 'no data' placeholder;
\* neither raises nor carries any medal sum.
C4_PiePlaceholders ==
    (Served /\ call.cb = "update_pie_chart") =>
        /\ call.args[1] = PyNone =>
             /\ result.kind = "placeholder"
             /\ result.annotation = "No country selected"
             /\ result.data = << >>
        /\ (call.args[1].t = "str" /\ call.args[1].s # "" /\ RowsOf(call.args[1].s) = {}) =>
             /\ result.kind = "placeholder"
             /\ result.annotation = "No data available"
             /\ result.data = << >>

\* a pie asked for a country that is in no row, of a table that has rows
C4_Witness ==
    /\ Served
    /\ call = [cb |-> "update_pie_chart", args |-> <<PyStr("Atlantis")>>]
    /\ df # << >>
    /\ result.kind = "placeholder"

\* the load fails: the resource cannot be fetched or parsed, or lacks a column
LoadFails == csv.status # "ok" \/ ~(ExpectedSet \subseteq csv.columns)

Printed == UNION {{stdout[k].cols[j] : j \in Idx(stdout[k].cols)} : k \in Idx(stdout)}

\* C5: when the load fails, the program makes one fetch, prints a message
\* (with every missing column in it, when columns are missing) and exits; it
\* never gets to create df, the option lists, the layout or a callback, and
\* no callback ever runs.
C5_FailFast ==
    LoadFails =>
        /\ fetches <= 1
        /\ pc \in {"read_csv", "check_columns", "exited"}
        /\ csv.status # "ok" => pc # "check_columns"
        /\ globals \subseteq {"df_full", "expected_cols_from_user", "missing_cols"}
        /\ df = << >> /\ all_countries = << >> /\ medal_types = << >> /\ year_options = << >>
        /\ callbacks = {} /\ pending = {} /\ call = NoCall /\ result = NoResult
        /\ pc = "exited" =>
             /\ fetches = 1
             /\ stdout # << >>
             /\ csv.status = "ok" => ExpectedSet \ csv.columns \subseteq Printed

\* the program has exited on a CSV that lacks several columns
C5_Witness ==
    /\ pc = "exited"
    /\ csv.status = "ok"
    /\ Cardinality(ExpectedSet \ csv.columns) >= 2
    /\ stdout # << >>

\* the rows of the CSV with a year of the range
SourceInRange == {i \in Idx(csv.rows) : csv.rows[i].Year >= YearLo /\ csv.rows[i].Year <= YearHi}

\* the k-th of them
SourceOf(k) == CHOOSE i \in SourceInRange : Cardinality({j \in SourceInRange : j <= i}) = k

Prepared == pc \in {"options", "layout", "callbacks", "serving"}

\* C6: once the data is prepared, df holds exactly the CSV rows with
\* 1992 <= Year <= 2020, in their order and with their values, except that
\* the name "United States" reads "United States of America"; and every
\* row has Total_Medals = Gold + Silver + Bronze.
C6_WorkingTable ==
    Prepared =>
        /\ Len(df) = Cardinality(SourceInRange)
        /\ \A k \in Idx(df) :
             LET src == csv.rows[SourceOf(k)]
             IN /\ df[k].Year >= YearLo /\ df[k].Year <= YearHi
                /\ df[k].Total_Medals = df[k].Gold + df[k].Silver + df[k].Bronze
                /\ df[k].Country_Name # "United States"
                /\ df[k].Country_Name =
                      IF src.Country_Name = "United States"
                      THEN "United States of America" ELSE src.Country_Name
                /\ \A col \in ExpectedSet \ {"Country_Name"} : df[k][col] = src[col]

\* a prepared table from a CSV with a "United States" row in the range, a row
\* below the range and a row in the first year of the range
C6_Witness ==
    /\ Prepared
    /\ \E i \in SourceInRange : csv.rows[i].Country_Name = "United States"
    /\ \E i \in Idx(csv.rows) : csv.rows[i].Year < YearLo
    /\ \E i \in Idx(csv.rows) : csv.rows[i].Year = YearLo

\* C7 as stated: a change of one dropdown makes exactly one call, and no
\* call is dispatched while another has yet to run.
C7_OneCallPerChange ==
    event.source \in Dropdowns =>
        /\ event.calls = 1
        /\ Cardinality(pending) <= 1

\* C7 amended: a change of the country dropdown makes exactly one call
\* (update_pie_chart), a change of the year dropdown exactly one
\* (update_bar_chart), and a change of the medal-type dropdown exactly three,
\* dispatched together (update_map_chart, update_area_chart,
\* update_bar_chart).
C7_CallsPerChange ==
    /\ event.source = "country-dropdown" =>
         event.calls = 1 /\ event.cbs = {"update_pie_chart"}
    /\ event.source = "year-dropdown" =>
         event.calls = 1 /\ event.cbs = {"update_bar_chart"}
    /\ event.source = "medal-type-dropdown" =>
         /\ event.calls = 3
         /\ event.cbs = {"update_map_chart", "update_area_chart", "update_bar_chart"}
    /\ {inv.cb : inv \in pending} \subseteq event.cbs
    /\ Cardinality(pending) <= event.calls

\* the three calls of a medal-type change have all run
C7_Witness ==
    /\ event.source = "medal-type-dropdown"
    /\ event.calls = 3
    /\ pending = {}
    /\ call.cb # "none"

\* C8: no call of a callback changes df, all_countries, medal_types or
\* year_options.
C8_CallsLeaveDataAlone ==
    [][pc = "serving" =>
         /\ df' = df
         /\ all_countries' = all_countries
         /\ medal_types' = medal_types
         /\ year_options' = year_options]_vars

\* a bar chart of one year that shows fewer countries than df has, after
\* which df still has rows of other years
C8_Witness ==
    /\ Served
    /\ call.cb = "update_bar_chart"
    /\ call.args[2].t = "int"
    /\ result.kind = "figure"
    /\ \E i \in Idx(df) : df[i].Year # call.args[2].i
    /\ Len(result.data) < Cardinality({df[i].Country_Name : i \in Idx(df)})

\* C9: year_options is the entry 'All' followed by exactly one option per
\* year of df, in ascending order of year, each with the label of a row of
\* that year; no year is the value of two options.
C9_OneOptionPerYear ==
    "year_options" \in globals =>
        LET opts == Tail(year_options)
            years == {df[i].Year : i \in Idx(df)}
        IN /\ year_options[1].value = PyStr("All")
           /\ Len(opts) = Cardinality(years)
           /\ \A k \in Idx(opts) :
                /\ opts[k].value.t = "int"
                /\ \E i \in Idx(df) :
                      df[i].Year = opts[k].value.i /\ opts[k].label = YearLabel(df[i])
           /\ \A k \in Idx(opts) : \A l \in Idx(opts) :
                k < l => opts[k].value.i < opts[l].value.i

\* the year of a call of update_bar_chart is neither 'All' nor an option
YearMiss ==
    /\ call.cb = "update_bar_chart"
    /\ call.args[2] # PyStr("All")
    /\ \A k \in Idx(year_options) : year_options[k].value # call.args[2]

\* C10: with the medal type cleared, or with a year that is neither 'All'
\* nor an option, update_map_chart, update_area_chart and update_bar_chart
\* return an empty or placeholder chart and do not raise; update_bar_chart
\* labels an unmatched year with its string form.
C10_SelectionMissNonFatal ==
    (/\ Served
     /\ call.cb \in {"update_map_chart", "update_area_chart", "update_bar_chart"}
     /\ (call.args[1] = PyNone \/ YearMiss)) =>
        /\ result.kind # "raise"
        /\ result.data = << >>
        /\ YearMiss => result.year_title_segment = PyToStr(call.args[2])

====
